---- MODULE Spec2Model ----
(***************************************************************************)
(* Model of src/uploader.rs: a directory watcher that uploads pairs of     *)
(* sidecar files (<stem>.mp3 / <stem>.txt) found in sub-directories of a   *)
(* watched root.                                                           *)
(*                                                                         *)
(* Strings are sequences of one-character strings, so that the filename   *)
(* regex, Path::file_stem and Path::join are computed character by         *)
(* character.  A path is the sequence of its components; the root "/" is   *)
(* the empty sequence.  Option<T> is a sequence of length 0 (None) or 1    *)
(* (Some).                                                                 *)
(***************************************************************************)
EXTENDS Integers, Sequences, FiniteSets, TLC

VARIABLES
    fs,      \* the watched tree: path -> "none" | "file" | "dir"
    chan,    \* the mpsc channel between the watcher callback and the loop
    pc,      \* position of the event loop
    cur,     \* event.paths still to iterate; Head(cur) is `path`
    pair,    \* Option<(mp3_path, txt_path)> bound by `if let Some(..)`
    form,    \* Option<request> being awaited on .send()
    mp3_bytes, \* Option<bytes> read from mp3_path, held while txt is read
    trace,   \* history: one record per finished path or event error
    nsent,   \* number of results the watcher callback has sent
    fsops,   \* number of changes made to the tree by external writers
    nposts,  \* number of requests handed to .send()
    delivered, \* history: the paths of every result the callback sent, in order
    parseIn, \* filename handed to parse_filename (SpecParse)
    parseOut \* Option<result of parse_filename(parseIn)> (SpecParse)

vars == <<fs, chan, pc, cur, pair, mp3_bytes, form, trace, nsent, fsops, nposts,
          delivered, parseIn, parseOut>>

(***************************************************************************)
(* Bounds of the model.                                                    *)
(***************************************************************************)
MaxEvents == 2
MaxFsOps == 2

(***************************************************************************)
(* Option and generic helpers.                                             *)
(***************************************************************************)
None == <<>>
Some(x) == <<x>>

SetMin(S) == CHOOSE x \in S : \A y \in S : x <= y
SetMax(S) == CHOOSE x \in S : \A y \in S : x >= y

(***************************************************************************)
(* Characters and the building blocks of the filenames.                    *)
(***************************************************************************)
Digits == {"0", "1", "2", "3", "4", "5", "6", "7", "8", "9"}
IsDigit(c) == c \in Digits

Date1 == <<"2", "0", "2", "4", "0", "1", "3", "1">>
Time1 == <<"2", "3", "5", "9", "0", "1">>
Us == <<"_">>
Unit1 == <<"_", "u", "1">>
ToMarker == <<"_", "_", "T", "O", "_">>
FromMarker == <<"_", "F", "R", "O", "M", "_">>
ExtMp3 == <<".", "m", "p", "3">>
ExtTxt == <<".", "t", "x", "t">>
DefaultRadioId == <<"1", "2", "3", "4", "5", "6">>

(***************************************************************************)
(* parse_filename: the regex                                               *)
(*     (\d{8}_\d{6}).*__TO_(\d+)(?:_FROM_(\d+))?                           *)
(* searched in `filename` (unanchored, leftmost match, greedy operators).  *)
(***************************************************************************)
\* (\d{8}_\d{6}) matches f at position i
MatchTimestamp(f, i) ==
    /\ i >= 1
    /\ i + 14 <= Len(f)
    /\ \A k \in i .. i + 7 : IsDigit(f[k])
    /\ f[i + 8] = "_"
    /\ \A k \in i + 9 .. i + 14 : IsDigit(f[k])

\* __TO_(\d+) can match f at position p: the marker and at least one digit
MatchTo(f, p) ==
    /\ p >= 1
    /\ p + 5 <= Len(f)
    /\ SubSeq(f, p, p + 4) = ToMarker
    /\ IsDigit(f[p + 5])

\* last index of the run of digits that starts at i (greedy \d+)
DigitRunEnd(f, i) ==
    SetMax({j \in i .. Len(f) : \A k \in i .. j : IsDigit(f[k])})

\* (?:_FROM_(\d+))? takes its group at position q
MatchFrom(f, q) ==
    /\ q + 6 <= Len(f)
    /\ SubSeq(f, q, q + 5) = FromMarker
    /\ IsDigit(f[q + 6])

\* start positions at which the whole regex matches
MatchStarts(f) ==
    {i \in 1 .. Len(f) :
        MatchTimestamp(f, i) /\ \E p \in i + 15 .. Len(f) : MatchTo(f, p)}

\* variant: a missing radio id is left empty instead of defaulted
RadioIdNoDefault(f, q) ==
    IF MatchFrom(f, q) THEN SubSeq(f, q + 6, DigitRunEnd(f, q + 6))
    ELSE <<>>

\* cap.get(3).map_or("123456", ..)
RadioId(f, q) ==
    IF MatchFrom(f, q) THEN SubSeq(f, q + 6, DigitRunEnd(f, q + 6))
    ELSE DefaultRadioId

\* variant: a lazy .*? , which stops at the first __TO_(\d+)
parse_filename_lazy(filename) ==
    IF MatchStarts(filename) = {} THEN None
    ELSE
        LET i == SetMin(MatchStarts(filename))
            p == SetMin({q \in i + 15 .. Len(filename) : MatchTo(filename, q)})
            e == DigitRunEnd(filename, p + 5)
        IN  Some([timestamp |-> SubSeq(filename, i, i + 14),
                  talkgroup_id |-> SubSeq(filename, p + 5, e),
                  radio_id |-> RadioId(filename, e + 1)])

\* variant: the __TO_ group is optional too, the talkgroup taking a default
parse_filename_marker_optional(filename) ==
    LET starts == {i \in 1 .. Len(filename) : MatchTimestamp(filename, i)}
    IN  IF starts = {} THEN None
        ELSE Some([timestamp |-> SubSeq(filename, SetMin(starts), SetMin(starts) + 14),
                   talkgroup_id |-> <<"0">>,
                   radio_id |-> DefaultRadioId])

parse_filename(filename) ==
    IF MatchStarts(filename) = {} THEN None
    ELSE
        LET i == SetMin(MatchStarts(filename))
            \* greedy .* : the last place where __TO_(\d+) still matches
            p == SetMax({q \in i + 15 .. Len(filename) : MatchTo(filename, q)})
            e == DigitRunEnd(filename, p + 5)
        IN  Some([timestamp |-> SubSeq(filename, i, i + 14),
                  talkgroup_id |-> SubSeq(filename, p + 5, e),
                  radio_id |-> RadioId(filename, e + 1)])

(***************************************************************************)
(* std::path: a path is its sequence of components.                        *)
(***************************************************************************)
\* Path::parent
parent(path) ==
    IF path = <<>> THEN None ELSE Some(SubSeq(path, 1, Len(path) - 1))

\* Path::file_name
file_name(path) ==
    IF path = <<>> THEN None ELSE Some(path[Len(path)])

\* Path::file_stem: the file name up to its last '.', the whole name when
\* it has no '.' or only a leading one
file_stem(path) ==
    IF path = <<>> THEN None
    ELSE
        LET name == path[Len(path)]
            dots == {k \in 2 .. Len(name) : name[k] = "."}
        IN  IF dots = {} THEN Some(name)
            ELSE Some(SubSeq(name, 1, SetMax(dots) - 1))

\* Path::join with a single component
join(dir, name) == Append(dir, name)

(***************************************************************************)
(* The watched tree and the notifications of the model.                    *)
(***************************************************************************)
W == <<"w">>
SubDir == <<"s">>
\* root_path_buf: the absolute path /w
Root == <<W>>

\* 20240131_235901_u1__TO_41_FROM_98
StemA == Date1 \o Us \o Time1 \o Unit1 \o ToMarker \o <<"4", "1">> \o FromMarker \o <<"9", "8">>
\* 20240131_235901__TO_7
StemB == Date1 \o Us \o Time1 \o ToMarker \o <<"7">>
\* 20240131_235901_u1 : no __TO_ marker
StemN == Date1 \o Us \o Time1 \o Unit1

InSub(stem, ext) == <<W, SubDir, stem \o ext>>
InRoot(stem, ext) == <<W, stem \o ext>>

\* the entries of the tree that the model follows
Paths ==
    {InSub(StemA, ExtMp3), InSub(StemA, ExtTxt),
     InSub(StemB, ExtMp3), InSub(StemB, ExtTxt),
     InSub(StemN, ExtMp3), InSub(StemN, ExtTxt),
     InRoot(StemA, ExtMp3), InRoot(StemA, ExtTxt)}

\* the entries that external writers change while the program runs
MutablePaths ==
    {InSub(StemA, ExtMp3), InSub(StemA, ExtTxt)}

FullTree == [p \in Paths |-> "file"]
\* every pair but A's is complete; A's files are still to arrive
WaitingTree == [p \in Paths |-> IF p \in {InSub(StemA, ExtMp3), InSub(StemA, ExtTxt)}
                                 THEN "none" ELSE "file"]
InitialTrees == {FullTree, WaitingTree}

\* what the watcher hands to its callback: Ok(event) with event.paths, or Err
OkEvent(paths) == [ok |-> TRUE, paths |-> paths]
ErrEvent == [ok |-> FALSE, paths |-> <<>>]
Events ==
    {OkEvent(<<p>>) : p \in Paths \ {InSub(StemB, ExtTxt), InSub(StemN, ExtTxt),
                                     InRoot(StemA, ExtTxt)}}
    \cup {OkEvent(<<<<W, SubDir>>>>),
          OkEvent(<<InSub(StemA, ExtMp3), InSub(StemB, ExtMp3)>>),
          ErrEvent}

\* the paths an entry of the channel stands for; an Err counts as one entry
\* with the empty path
EventPaths(res) == IF res.ok THEN res.paths ELSE <<<<>>>>

\* metadata of the entry at path
Kind(path) == IF path \in DOMAIN fs THEN fs[path] ELSE "none"
\* Path::is_file
is_file(path) == Kind(path) = "file"
\* Path::exists
exists(path) == Kind(path) # "none"
\* fs::read: Ok(bytes) for a regular file, Err otherwise
fs_read(path) == IF Kind(path) = "file" THEN Some(<<"bytes", path>>) ELSE None

(***************************************************************************)
(* The functions of uploader.rs.                                           *)
(***************************************************************************)
\* variant: the comparison with the watched root is missing
should_process_file_any_dir(file_path, root_path) ==
    is_file(file_path)

\* variant: only the audio file triggers an upload
should_process_file_mp3_only(file_path, root_path) ==
    /\ parent(file_path) # Some(root_path)
    /\ is_file(file_path)
    /\ file_path # <<>>
    /\ Len(file_path[Len(file_path)]) >= 4
    /\ SubSeq(file_path[Len(file_path)], Len(file_path[Len(file_path)]) - 3,
              Len(file_path[Len(file_path)])) = ExtMp3

should_process_file(file_path, root_path) ==
    parent(file_path) # Some(root_path) /\ is_file(file_path)

\* variant: one of the two files is enough
extract_file_info_either(file_path) ==
    IF file_stem(file_path) = None \/ parent(file_path) = None THEN None
    ELSE
        LET stem == file_stem(file_path)[1]
            parent_dir == parent(file_path)[1]
            mp3_path == join(parent_dir, stem \o ExtMp3)
            txt_path == join(parent_dir, stem \o ExtTxt)
        IN  IF exists(mp3_path) \/ exists(txt_path)
            THEN Some(<<mp3_path, txt_path>>)
            ELSE None

\* variant: the path of the notification is taken as the recording
extract_file_info_trigger(file_path) ==
    IF file_stem(file_path) = None \/ parent(file_path) = None THEN None
    ELSE
        LET stem == file_stem(file_path)[1]
            parent_dir == parent(file_path)[1]
            mp3_path == join(parent_dir, stem \o ExtMp3)
            txt_path == join(parent_dir, stem \o ExtTxt)
        IN  IF exists(mp3_path) /\ exists(txt_path)
            THEN Some(<<file_path, txt_path>>)
            ELSE None

extract_file_info(file_path) ==
    IF file_stem(file_path) = None \/ parent(file_path) = None THEN None
    ELSE
        LET stem == file_stem(file_path)[1]
            parent_dir == parent(file_path)[1]
            mp3_path == join(parent_dir, stem \o ExtMp3)
            txt_path == join(parent_dir, stem \o ExtTxt)
        IN  IF exists(mp3_path) /\ exists(txt_path)
            THEN Some(<<mp3_path, txt_path>>)
            ELSE None

\* Form::new().text(..).text(..).text(..).part("mp3", ..).part("transcription", ..)
BuildForm(meta, mp3_path, txt_path, mp3b, txtb) ==
    [talkgroupId |-> meta.talkgroup_id,
     timestamp |-> meta.timestamp,
     radioId |-> meta.radio_id,
     mp3 |-> [bytes |-> mp3b, file_name |-> file_name(mp3_path)[1], mime |-> "audio/mpeg"],
     transcription |-> [bytes |-> txtb, file_name |-> file_name(txt_path)[1], mime |-> "text/plain"]]

\* parse_filename on the file names of the tree, evaluated once per name
FileNames == {p[Len(p)] : p \in Paths}
ParsedFileNames == [f \in FileNames |-> parse_filename(f)]
\* the call parse_filename(filename) of upload_file
parse_filename_call(filename) ==
    IF filename \in FileNames THEN ParsedFileNames[filename]
    ELSE parse_filename(filename)

\* what .send().await yields: Ok(response) with its status, or Err
SendResults == {"Ok 200", "Ok 500", "Err"}
\* the match on the result of send: which line is printed
ReportOfSend(result) ==
    IF result = "Err" THEN "Upload failed" ELSE "Upload successful"

(***************************************************************************)
(* State machine.                                                          *)
(***************************************************************************)
Entry(path, outcome, req, report) ==
    [path |-> path, outcome |-> outcome, req |-> req, report |-> report]

Init ==
    /\ fs \in InitialTrees
    /\ chan = <<>>
    /\ pc = "recv"
    /\ cur = <<>>
    /\ pair = None
    /\ mp3_bytes = None
    /\ form = None
    /\ trace = <<>>
    /\ nsent = 0
    /\ fsops = 0
    /\ nposts = 0
    /\ delivered = <<>>
    /\ parseIn = <<>>
    /\ parseOut = None

parseVars == <<parseIn, parseOut>>
loopVars == <<pc, cur, pair, mp3_bytes, form, trace, nposts>>

\* external writers, for as long as the process lives --------------------
CreateFile(p) ==
    /\ pc # "panicked"
    /\ fsops < MaxFsOps
    /\ fs[p] = "none"
    /\ fs' = [fs EXCEPT ![p] = "file"]
    /\ fsops' = fsops + 1
    /\ UNCHANGED <<chan, nsent, delivered, loopVars, parseVars>>

RemoveEntry(p) ==
    /\ pc # "panicked"
    /\ fsops < MaxFsOps
    /\ fs[p] # "none"
    /\ fs' = [fs EXCEPT ![p] = "none"]
    /\ fsops' = fsops + 1
    /\ UNCHANGED <<chan, nsent, delivered, loopVars, parseVars>>

MakeDir(p) ==
    /\ pc # "panicked"
    /\ fsops < MaxFsOps
    /\ fs[p] = "none"
    /\ fs' = [fs EXCEPT ![p] = "dir"]
    /\ fsops' = fsops + 1
    /\ UNCHANGED <<chan, nsent, delivered, loopVars, parseVars>>

\* variant: a rendezvous channel with try_send, which drops the result while
\* the loop is busy
WatcherCallbackTrySend(res) ==
    /\ pc # "panicked"
    /\ nsent < MaxEvents
    /\ chan' = IF pc = "recv" THEN Append(chan, res) ELSE chan
    /\ delivered' = delivered \o EventPaths(res)
    /\ nsent' = nsent + 1
    /\ UNCHANGED <<fs, fsops, loopVars, parseVars>>

\* the watcher's callback: |res| tx.send(res).unwrap() ---------------------
WatcherCallback(res) ==
    /\ pc # "panicked"
    /\ nsent < MaxEvents
    /\ chan' = Append(chan, res)
    /\ delivered' = delivered \o EventPaths(res)
    /\ nsent' = nsent + 1
    /\ UNCHANGED <<fs, fsops, loopVars, parseVars>>

\* the event loop ----------------------------------------------------------
\* end of the body of `for path in event.paths`: on to the next path, or
\* back to rx.recv() after the last
Advance(entry) ==
    /\ trace' = Append(trace, entry)
    /\ cur' = Tail(cur)
    /\ pc' = IF Tail(cur) = <<>> THEN "recv" ELSE "filter"
    /\ pair' = None
    /\ mp3_bytes' = None
    /\ form' = None

\* .expect(..) on an Err: the panic unwinds main
Panic(entry) ==
    /\ trace' = Append(trace, entry)
    /\ pc' = "panicked"
    /\ UNCHANGED <<cur, pair, mp3_bytes, form>>

\* variant: the newest entry of the channel is taken first
RecvOkNewest ==
    /\ pc = "recv"
    /\ chan # <<>>
    /\ chan[Len(chan)].ok
    /\ chan' = SubSeq(chan, 1, Len(chan) - 1)
    /\ cur' = chan[Len(chan)].paths
    /\ pc' = IF chan[Len(chan)].paths = <<>> THEN "recv" ELSE "filter"
    /\ UNCHANGED <<fs, fsops, nsent, nposts, delivered, pair, mp3_bytes, form, trace, parseVars>>

RecvOk ==
    /\ pc = "recv"
    /\ chan # <<>>
    /\ Head(chan).ok
    /\ chan' = Tail(chan)
    /\ cur' = Head(chan).paths
    /\ pc' = IF Head(chan).paths = <<>> THEN "recv" ELSE "filter"
    /\ UNCHANGED <<fs, fsops, nsent, nposts, delivered, pair, mp3_bytes, form, trace, parseVars>>

\* variant: an Err from the watcher ends the loop
RecvErrEndsLoop ==
    /\ pc = "recv"
    /\ chan # <<>>
    /\ ~Head(chan).ok
    /\ chan' = Tail(chan)
    /\ trace' = Append(trace, Entry(<<>>, "watch_error", None, "Error handling event"))
    /\ pc' = "panicked"
    /\ UNCHANGED <<fs, fsops, nsent, nposts, delivered, cur, pair, mp3_bytes, form, parseVars>>

RecvErr ==
    /\ pc = "recv"
    /\ chan # <<>>
    /\ ~Head(chan).ok
    /\ chan' = Tail(chan)
    /\ trace' = Append(trace, Entry(<<>>, "watch_error", None, "Error handling event"))
    /\ UNCHANGED <<fs, fsops, nsent, nposts, delivered, pc, cur, pair, mp3_bytes, form, parseVars>>

Filter ==
    /\ pc = "filter"
    /\ IF should_process_file(Head(cur), Root)
       THEN /\ pc' = "resolve"
            /\ UNCHANGED <<cur, pair, mp3_bytes, form, trace>>
       ELSE Advance(Entry(Head(cur), "ineligible", None, ""))
    /\ UNCHANGED <<fs, fsops, chan, nsent, nposts, delivered, parseVars>>

\* variant: a path that was uploaded before is remembered and skipped
ResolveDedup ==
    /\ pc = "resolve"
    /\ IF /\ extract_file_info(Head(cur)) # None
          /\ \A i \in 1 .. Len(trace) :
                 ~(trace[i].path = Head(cur) /\ trace[i].req # None)
       THEN /\ pair' = extract_file_info(Head(cur))
            /\ pc' = "upload"
            /\ UNCHANGED <<cur, mp3_bytes, form, trace>>
       ELSE Advance(Entry(Head(cur), "no_pair", None, ""))
    /\ UNCHANGED <<fs, fsops, chan, nsent, nposts, delivered, parseVars>>

Resolve ==
    /\ pc = "resolve"
    /\ IF extract_file_info(Head(cur)) # None
       THEN /\ pair' = extract_file_info(Head(cur))
            /\ pc' = "upload"
            /\ UNCHANGED <<cur, mp3_bytes, form, trace>>
       ELSE Advance(Entry(Head(cur), "no_pair", None, ""))
    /\ UNCHANGED <<fs, fsops, chan, nsent, nposts, delivered, parseVars>>

\* upload_file up to and including fs::read(mp3_path)
UploadReadMp3 ==
    /\ pc = "upload"
    /\ LET mp3_path == pair[1][1]
           filename == file_name(mp3_path)[1]
       IN  IF parse_filename_call(filename) = None
           THEN Advance(Entry(Head(cur), "no_parse", None, ""))
           ELSE IF fs_read(mp3_path) = None
           THEN Panic(Entry(Head(cur), "read_failed", None, "Failed to read mp3 file"))
           ELSE /\ mp3_bytes' = fs_read(mp3_path)
                /\ pc' = "read_txt"
                /\ UNCHANGED <<cur, pair, form, trace>>
    /\ UNCHANGED <<fs, fsops, chan, nsent, nposts, delivered, parseVars>>

\* variant: a failed read of the transcript yields empty bytes (unwrap_or_default)
UploadReadTxtSendDefault ==
    /\ pc = "read_txt"
    /\ LET mp3_path == pair[1][1]
           txt_path == pair[1][2]
           meta == parse_filename_call(file_name(mp3_path)[1])[1]
           txt_bytes == IF fs_read(txt_path) = None THEN <<>> ELSE fs_read(txt_path)[1]
       IN  /\ form' = Some(BuildForm(meta, mp3_path, txt_path, mp3_bytes[1], txt_bytes))
           /\ nposts' = nposts + 1
           /\ pc' = "await"
           /\ UNCHANGED <<cur, pair, mp3_bytes, trace>>
    /\ UNCHANGED <<fs, fsops, chan, nsent, delivered, parseVars>>

\* upload_file from fs::read(txt_path) to .send()
UploadReadTxtSend ==
    /\ pc = "read_txt"
    /\ LET mp3_path == pair[1][1]
           txt_path == pair[1][2]
           meta == parse_filename_call(file_name(mp3_path)[1])[1]
       IN  IF fs_read(txt_path) = None
           THEN /\ Panic(Entry(Head(cur), "read_failed", None, "Failed to read txt file"))
                /\ UNCHANGED nposts
           ELSE /\ form' = Some(BuildForm(meta, mp3_path, txt_path,
                                          mp3_bytes[1], fs_read(txt_path)[1]))
                /\ nposts' = nposts + 1
                /\ pc' = "await"
                /\ UNCHANGED <<cur, pair, mp3_bytes, trace>>
    /\ UNCHANGED <<fs, fsops, chan, nsent, delivered, parseVars>>

\* variant: a failed send is unwrapped
SendReturnsUnwrap(result) ==
    /\ pc = "await"
    /\ IF result = "Err"
       THEN Panic(Entry(Head(cur), result, form, ReportOfSend(result)))
       ELSE Advance(Entry(Head(cur), result, form, ReportOfSend(result)))
    /\ UNCHANGED <<fs, fsops, chan, nsent, nposts, delivered, parseVars>>

\* variant: a failed send is sent again
SendReturnsRetry(result) ==
    /\ pc = "await"
    /\ IF result = "Err"
       THEN /\ nposts' = nposts + 1
            /\ UNCHANGED <<pc, cur, pair, mp3_bytes, form, trace>>
       ELSE /\ Advance(Entry(Head(cur), result, form, ReportOfSend(result)))
            /\ UNCHANGED nposts
    /\ UNCHANGED <<fs, fsops, chan, nsent, delivered, parseVars>>

\* variant: the two files are removed once the server accepted them
SendReturnsCleans(result) ==
    /\ pc = "await"
    /\ Advance(Entry(Head(cur), result, form, ReportOfSend(result)))
    /\ fs' = IF result = "Ok 200"
             THEN [p \in Paths |-> IF p \in {pair[1][1], pair[1][2]} THEN "none" ELSE fs[p]]
             ELSE fs
    /\ UNCHANGED <<fsops, chan, nsent, nposts, delivered, parseVars>>

\* .await returns: the match on the result of send
SendReturns(result) ==
    /\ pc = "await"
    /\ Advance(Entry(Head(cur), result, form, ReportOfSend(result)))
    /\ UNCHANGED <<fs, fsops, chan, nsent, nposts, delivered, parseVars>>

Next ==
    \/ \E p \in MutablePaths : CreateFile(p)
    \/ \E p \in MutablePaths : RemoveEntry(p)
    \/ \E p \in MutablePaths : MakeDir(p)
    \/ \E res \in Events : WatcherCallback(res)
    \/ RecvOk
    \/ RecvErr
    \/ Filter
    \/ Resolve
    \/ UploadReadMp3
    \/ UploadReadTxtSend
    \/ \E result \in SendResults : SendReturns(result)

Spec == Init /\ [][Next]_vars

(***************************************************************************)
(* parse_filename on its own: the inputs are filenames assembled from      *)
(* parts,  pre <date>_<time> mid [__TO_ tg] [_FROM_ radio] rest ext.       *)
(***************************************************************************)
Timestamp1 == Date1 \o Us \o Time1

ParsePres == {<<>>, <<"r">>, <<"9">>}
ParseMids ==
    {<<>>, Unit1, <<"7">>, ToMarker, FromMarker \o <<"6">>,
     ToMarker \o <<"5">>, ToMarker \o <<"5">> \o FromMarker \o <<"6">>}
\* <<>> stands for a filename without that group
ParseTgs == {<<>>, <<"4", "1">>}
ParseRadios == {<<>>, <<"9", "8">>}
ParseRests ==
    {<<>>, <<"5">>, ToMarker, ToMarker \o <<"3">>, FromMarker \o <<"2">>,
     Us \o Timestamp1}
ParseExts == {<<>>, ExtMp3}

ParseInputs ==
    [pre : ParsePres, mid : ParseMids, tg : ParseTgs, radio : ParseRadios, rest : ParseRests,
     ext : ParseExts]

FilenameOf(in) ==
    in.pre \o Timestamp1 \o in.mid
    \o (IF in.tg = <<>> THEN <<>> ELSE ToMarker \o in.tg)
    \o (IF in.radio = <<>> THEN <<>> ELSE FromMarker \o in.radio)
    \o in.rest \o in.ext

InitParse ==
    /\ fs = FullTree
    /\ chan = <<>>
    /\ pc = "recv"
    /\ cur = <<>>
    /\ pair = None
    /\ mp3_bytes = None
    /\ form = None
    /\ trace = <<>>
    /\ nsent = 0
    /\ fsops = 0
    /\ nposts = 0
    /\ delivered = <<>>
    /\ parseIn \in ParseInputs
    /\ parseOut = None

ParseCall ==
    /\ parseOut = None
    /\ parseOut' = Some(parse_filename(FilenameOf(parseIn)))
    /\ UNCHANGED <<fs, chan, nsent, fsops, delivered, loopVars, parseIn>>

NextParse == ParseCall

SpecParse == InitParse /\ [][NextParse]_vars

(***************************************************************************)
(* Helpers of the properties.                                              *)
(***************************************************************************)
Running == pc \in {"recv", "filter", "resolve", "upload", "read_txt", "await"}
Indices == 1 .. Len(trace)
Sent(i) == trace[i].req # None
\* entries of the trace that sent the pair <stem>.mp3 / <stem>.txt of the sub-directory
UploadsOf(stem) ==
    {i \in Indices :
        /\ Sent(i)
        /\ trace[i].req[1].mp3.bytes = <<"bytes", InSub(stem, ExtMp3)>>
        /\ trace[i].req[1].transcription.bytes = <<"bytes", InSub(stem, ExtTxt)>>}
\* the text contains the marker __TO_
ContainsToMarker(f) ==
    \E k \in 1 .. Len(f) : k + 4 <= Len(f) /\ SubSeq(f, k, k + 4) = ToMarker
\* the same, looked up for the last components of the paths of the tree
HasToMarker == [f \in FileNames \cup {SubDir} |-> ContainsToMarker(f)]
NameHasToMarker(f) ==
    IF f \in DOMAIN HasToMarker THEN HasToMarker[f] ELSE ContainsToMarker(f)
\* the path lies directly in the watched root /w
DirectlyInRoot(path) == Len(path) = 2 /\ path[1] = W
\* the two files of the pair to which an entry of the tree belongs
Mp3Of(path) == SubSeq(path, 1, Len(path) - 1)
                \o <<SubSeq(path[Len(path)], 1, Len(path[Len(path)]) - 4) \o ExtMp3>>
TxtOf(path) == SubSeq(path, 1, Len(path) - 1)
                \o <<SubSeq(path[Len(path)], 1, Len(path[Len(path)]) - 4) \o ExtTxt>>

(***************************************************************************)
(* C1.  Each physical pair is uploaded at most once: when the tree is left *)
(* alone and one notification for <stem>.mp3 and one for <stem>.txt have   *)
(* been processed, in either order, at most one request was sent for the   *)
(* pair.  The loop keeps no record of what it has sent, so this fails.     *)
(***************************************************************************)
C1_PairUploadedAtMostOnce ==
    (/\ fsops = 0
     /\ Len(trace) = 2
     /\ {trace[1].path, trace[2].path} = {InSub(StemA, ExtMp3), InSub(StemA, ExtTxt)})
    => Cardinality(UploadsOf(StemA)) <= 1

(***************************************************************************)
(* C2.  A failed read of the .mp3 or the .txt abandons only that upload:   *)
(* the loop is still running after it.  The reads are .expect()ed, so this *)
(* fails.                                                                  *)
(***************************************************************************)
C2_ReadFailureKeepsLoopRunning ==
    \A i \in Indices : trace[i].outcome = "read_failed" => Running

(***************************************************************************)
(* C3.  A failed send is reported and does not stop the loop: as long as   *)
(* it is the last thing the loop finished, the loop is running (at its     *)
(* next path, back at recv, or busy with a later notification).            *)
(***************************************************************************)
C3_SendFailureKeepsLoopRunning ==
    \A i \in Indices :
        trace[i].outcome = "Err" =>
            /\ trace[i].report = "Upload failed"
            /\ i = Len(trace) => Running

\* a failed send of pair A, followed by an upload of the independent pair B
C3_Witness ==
    \E i, j \in Indices :
        /\ i < j
        /\ trace[i].outcome = "Err"
        /\ i \in UploadsOf(StemA)
        /\ j \in UploadsOf(StemB)
        /\ trace[j].outcome = "Ok 200"

(***************************************************************************)
(* C4.  extract_file_info yields the pair exactly when <stem>.mp3 and      *)
(* <stem>.txt both exist at the moment it runs; when one is absent the     *)
(* path is finished with no request sent.                                  *)
(***************************************************************************)
C4_PairOnlyIfBothExist ==
    [][(pc = "resolve" /\ pc' # "resolve" /\ Head(cur) \in Paths) =>
          IF fs[Mp3Of(Head(cur))] # "none" /\ fs[TxtOf(Head(cur))] # "none"
          THEN /\ pc' = "upload"
               /\ pair' = Some(<<Mp3Of(Head(cur)), TxtOf(Head(cur))>>)
          ELSE /\ pc' \in {"recv", "filter"}
               /\ Len(trace') = Len(trace) + 1
               /\ trace'[Len(trace')].path = Head(cur)
               /\ trace'[Len(trace')].req = None
               /\ form' = None]_vars

\* the .mp3 of A was notified and passed the filter while its .txt was absent
C4_Witness ==
    /\ trace # <<>>
    /\ trace[Len(trace)].path = InSub(StemA, ExtMp3)
    /\ trace[Len(trace)].outcome = "no_pair"
    /\ fs[InSub(StemA, ExtMp3)] = "file"
    /\ fs[InSub(StemA, ExtTxt)] = "none"

(***************************************************************************)
(* C5.  A path directly in the watched root never passes the filter: it is *)
(* finished as ineligible, and the loop never resolves or uploads for it.  *)
(***************************************************************************)
C5_RootLevelNeverEligible ==
    /\ \A i \in Indices :
           DirectlyInRoot(trace[i].path) =>
               trace[i].outcome = "ineligible" /\ trace[i].req = None
    /\ pc \in {"resolve", "upload", "read_txt", "await"} => ~DirectlyInRoot(Head(cur))

\* a root-level .mp3 was notified while its complete, parseable pair sat in the root
C5_Witness ==
    /\ \E i \in Indices : trace[i].path = InRoot(StemA, ExtMp3)
    /\ fs[InRoot(StemA, ExtMp3)] = "file"
    /\ fs[InRoot(StemA, ExtTxt)] = "file"

(***************************************************************************)
(* C6.  For a filename without the __TO_ marker nothing is uploaded: no    *)
(* file is read and no request is sent, although the pair is complete.     *)
(***************************************************************************)
C6_NoMarkerNoUpload ==
    /\ \A i \in Indices :
           (trace[i].path # <<>> /\ ~NameHasToMarker(trace[i].path[Len(trace[i].path)])) =>
               /\ trace[i].outcome \in {"ineligible", "no_pair", "no_parse"}
               /\ trace[i].req = None
    /\ pc \in {"read_txt", "await"} => NameHasToMarker(Head(cur)[Len(Head(cur))])

\* the complete pair N (no marker) was resolved and dropped by the parser
C6_Witness ==
    /\ \E i \in Indices :
           trace[i].path = InSub(StemN, ExtMp3) /\ trace[i].outcome = "no_parse"
    /\ fs[InSub(StemN, ExtMp3)] = "file"
    /\ fs[InSub(StemN, ExtTxt)] = "file"

(***************************************************************************)
(* C7.  As claimed: a filename in which <date>_<time> mid                  *)
(* __TO_<tg>_FROM_<radio> rest occurs parses to exactly (<date>_<time>,    *)
(* <tg>, <radio>), whatever mid and rest contain.  The greedy .* and \d+   *)
(* make this fail.                                                         *)
(***************************************************************************)
C7_TripleWhateverFollows ==
    (parseOut # None /\ parseIn.tg # <<>> /\ parseIn.radio # <<>>) =>
        parseOut[1] = Some([timestamp |-> Timestamp1,
                            talkgroup_id |-> parseIn.tg,
                            radio_id |-> parseIn.radio])

\* the rest begins with a digit, which lengthens the digits before it
RestStartsWithDigit(in) == in.rest # <<>> /\ IsDigit(in.rest[1])
\* the rest holds a further __TO_<digit>
RestHasTo(in) == in.rest = ToMarker \o <<"3">>

(***************************************************************************)
(* C7, amended.  The triple is (<date>_<time>, <tg>, <radio>) whatever mid *)
(* contains, provided rest neither begins with a digit nor holds a further *)
(* __TO_<digits>; when rest holds a further __TO_<digits> the talkgroup is *)
(* that last one and the radio id is the default.                          *)
(***************************************************************************)
C7_TripleOfLastToMarker ==
    (parseOut # None /\ parseIn.tg # <<>> /\ parseIn.radio # <<>>) =>
        /\ (~RestStartsWithDigit(parseIn) /\ ~RestHasTo(parseIn)) =>
               parseOut[1] = Some([timestamp |-> Timestamp1,
                                   talkgroup_id |-> parseIn.tg,
                                   radio_id |-> parseIn.radio])
        /\ RestHasTo(parseIn) =>
               parseOut[1] = Some([timestamp |-> Timestamp1,
                                   talkgroup_id |-> <<"3">>,
                                   radio_id |-> DefaultRadioId])

\* parsed: a filename whose middle text holds a complete __TO_5_FROM_6
C7_Witness ==
    /\ parseOut # None
    /\ parseIn.mid = ToMarker \o <<"5">> \o FromMarker \o <<"6">>
    /\ parseIn.tg = <<"4", "1">>
    /\ parseIn.radio = <<"9", "8">>
    /\ parseIn.rest = Us \o Timestamp1
    /\ parseOut[1] # None
    /\ parseOut[1][1].talkgroup_id = <<"4", "1">>

(***************************************************************************)
(* C8.  A filename with <date>_<time> and __TO_<digits> but no             *)
(* _FROM_<digits> after the talkgroup parses: the timestamp and talkgroup  *)
(* come from the filename and the radio id is "123456".                    *)
(***************************************************************************)
\* the digits of the last __TO_ group of a filename without radio id
TgWithoutRadio(in) ==
    IF RestHasTo(in) THEN <<"3">>
    ELSE IF RestStartsWithDigit(in) THEN in.tg \o in.rest
    ELSE in.tg

C8_DefaultRadioId ==
    (/\ parseOut # None
     /\ parseIn.tg # <<>>
     /\ parseIn.radio = <<>>
     /\ parseIn.rest # FromMarker \o <<"2">>) =>
        parseOut[1] = Some([timestamp |-> Timestamp1,
                            talkgroup_id |-> TgWithoutRadio(parseIn),
                            radio_id |-> <<"1", "2", "3", "4", "5", "6">>])

\* parsed: the filename of the example, 20240131_235901__TO_41.mp3
C8_Witness ==
    /\ parseOut # None
    /\ parseIn = [pre |-> <<>>, mid |-> <<>>, tg |-> <<"4", "1">>, radio |-> <<>>,
                  rest |-> <<>>, ext |-> ExtMp3]
    /\ parseOut[1] # None

(***************************************************************************)
(* C9.  A response with a non-success status is reported as a failed       *)
(* upload.  send() yields Ok for any response and the status is never      *)
(* looked at, so this fails.                                               *)
(***************************************************************************)
C9_ErrorStatusReportedAsFailure ==
    \A i \in Indices :
        trace[i].outcome = "Ok 500" => trace[i].report = "Upload failed"

(***************************************************************************)
(* C10.  An Err from the watcher is reported and the loop goes on: the     *)
(* step that takes it sends nothing, leaves the loop at recv and leaves    *)
(* the notifications queued behind it in the channel.                      *)
(***************************************************************************)
C10_WatchErrorKeepsLoopRunning ==
    [][(pc = "recv" /\ trace' # trace) =>
          /\ ~Head(chan).ok
          /\ pc' = "recv"
          /\ chan' = Tail(chan)
          /\ trace' = Append(trace, Entry(<<>>, "watch_error", None, "Error handling event"))
          /\ form' = None]_vars

\* a watcher error was taken, and a notification behind it led to an upload
C10_Witness ==
    \E i, j \in Indices :
        /\ i < j
        /\ trace[i].outcome = "watch_error"
        /\ Sent(j)

(***************************************************************************)
(* C11.  One POST per upload and no retry: the number of requests handed   *)
(* to send equals the number of paths that passed the filter, the pair     *)
(* resolution, the parse and both reads (those finished with a send        *)
(* result, plus the one being awaited), and exactly those entries carry a  *)
(* request.                                                                *)
(***************************************************************************)
C11_OnePostPerPassedPath ==
    /\ nposts = Cardinality({i \in Indices : trace[i].outcome \in SendResults})
                + (IF pc = "await" THEN 1 ELSE 0)
    /\ \A i \in Indices : Sent(i) <=> trace[i].outcome \in SendResults

\* the send for pair A failed and the loop is idle again: one POST, no retry
C11_Witness ==
    /\ Len(trace) = 1
    /\ trace[1].outcome = "Err"
    /\ 1 \in UploadsOf(StemA)
    /\ pc = "recv"
    /\ chan = <<>>
    /\ nposts = 1

(***************************************************************************)
(* C12.  One sequential consumer: the finished paths are, in order, the    *)
(* first paths the watcher delivered; the path being worked on is the next *)
(* delivered one; a request is in flight only while the loop awaits it,    *)
(* and it is the request of that path, so at most one is in flight and the *)
(* uploads are issued in the order of their triggering paths.              *)
(***************************************************************************)
C12_SequentialInArrivalOrder ==
    /\ Len(trace) <= Len(delivered)
    /\ \A i \in Indices : trace[i].path = delivered[i]
    /\ pc \in {"filter", "resolve", "upload", "read_txt", "await"} =>
           /\ Len(trace) < Len(delivered)
           /\ Head(cur) = delivered[Len(trace) + 1]
    /\ form # None <=> pc = "await"
    /\ pc = "await" =>
           /\ form[1].mp3.file_name = Mp3Of(Head(cur))[Len(Head(cur))]
           /\ nposts = Cardinality({i \in Indices : Sent(i)}) + 1
    /\ pc # "await" => nposts = Cardinality({i \in Indices : Sent(i)})

\* the second path of a notification is being uploaded, its first path is
\* finished and a later notification waits in the channel
C12_Witness ==
    /\ pc = "await"
    /\ Len(trace) = 1
    /\ trace[1].path = InSub(StemA, ExtMp3)
    /\ Head(cur) = InSub(StemB, ExtMp3)
    /\ Len(chan) = 1

(***************************************************************************)
(* C13.  No partial body: every request, sent or in flight, has the three  *)
(* text fields and the two parts with the bytes of both files of the pair  *)
(* of its path; the .mp3 has been read when the request is sent; and a     *)
(* failed read ends the attempt with no request.                           *)
(***************************************************************************)
\* the two parts of the request of the pair to which a path of the tree belongs
PartsOf ==
    [p \in Paths |->
        [mp3 |-> [bytes |-> <<"bytes", Mp3Of(p)>>,
                  file_name |-> Mp3Of(p)[Len(p)],
                  mime |-> "audio/mpeg"],
         transcription |-> [bytes |-> <<"bytes", TxtOf(p)>>,
                            file_name |-> TxtOf(p)[Len(p)],
                            mime |-> "text/plain"]]]

\* the request is whole and is the one of the pair of the path
WholeRequest(req, path) ==
    /\ path \in Paths
    /\ DOMAIN req = {"talkgroupId", "timestamp", "radioId", "mp3", "transcription"}
    /\ req.talkgroupId # <<>>
    /\ req.timestamp # <<>>
    /\ req.radioId # <<>>
    /\ LET parts == PartsOf[path]
       IN  req.mp3 = parts.mp3 /\ req.transcription = parts.transcription

C13_NoPartialBody ==
    /\ \A i \in Indices : Sent(i) => WholeRequest(trace[i].req[1], trace[i].path)
    /\ form # None => WholeRequest(form[1], Head(cur)) /\ mp3_bytes # None
    /\ \A i \in Indices : trace[i].outcome = "read_failed" => trace[i].req = None
    /\ pc = "panicked" => form = None /\ nposts = Cardinality({i \in Indices : Sent(i)})

\* the .mp3 was read, the read of the .txt failed, and nothing was sent
C13_Witness ==
    /\ pc = "panicked"
    /\ mp3_bytes # None
    /\ trace[Len(trace)].report = "Failed to read txt file"
    /\ nposts = 0

(***************************************************************************)
(* Arrival of a pair: the two files of pair A are created, in either       *)
(* order, in a tree that does not hold them yet; the watcher reports each  *)
(* creation once, after the file exists; nothing is removed.  Other        *)
(* results of the watcher may come in between.                             *)
(***************************************************************************)
ArrivalNoise == {ErrEvent, OkEvent(<<InSub(StemB, ExtMp3)>>)}

InitArrival ==
    /\ fs = WaitingTree
    /\ chan = <<>>
    /\ pc = "recv"
    /\ cur = <<>>
    /\ pair = None
    /\ mp3_bytes = None
    /\ form = None
    /\ trace = <<>>
    /\ nsent = 0
    /\ fsops = 0
    /\ nposts = 0
    /\ delivered = <<>>
    /\ parseIn = <<>>
    /\ parseOut = None

\* the watcher's callback, called for the creation of p
NotifyCreated(p) ==
    /\ pc # "panicked"
    /\ fs[p] = "file"
    /\ \A k \in 1 .. Len(delivered) : delivered[k] # p
    /\ chan' = Append(chan, OkEvent(<<p>>))
    /\ delivered' = Append(delivered, p)
    /\ UNCHANGED <<fs, fsops, nsent, loopVars, parseVars>>

NextArrival ==
    \/ \E p \in MutablePaths : CreateFile(p)
    \/ \E p \in MutablePaths : NotifyCreated(p)
    \/ \E res \in ArrivalNoise : WatcherCallback(res)
    \/ RecvOk
    \/ RecvErr
    \/ Filter
    \/ Resolve
    \/ UploadReadMp3
    \/ UploadReadTxtSend
    \/ \E result \in SendResults : SendReturns(result)

\* one step of the event loop's thread
LoopStep ==
    \/ RecvOk
    \/ RecvErr
    \/ Filter
    \/ Resolve
    \/ UploadReadMp3
    \/ UploadReadTxtSend
    \/ \E result \in SendResults : SendReturns(result)

\* the loop's thread runs whenever it can, a request is answered (or fails)
\* in the end, and the watcher reports every creation
FairArrival ==
    /\ WF_vars(LoopStep)
    /\ WF_vars(\E p \in MutablePaths : NotifyCreated(p))

SpecArrival == InitArrival /\ [][NextArrival]_vars /\ FairArrival

(***************************************************************************)
(* C14.  Partial arrival: once both files of the pair exist, a request for *)
(* the pair is sent and answered in the end, whichever file came first;    *)
(* the notification that finds only one file is finished as "no pair",     *)
(* with nothing reported and nothing sent, and the loop never stops.       *)
(***************************************************************************)
C14_PairEventuallyUploaded ==
    /\ (fs[InSub(StemA, ExtMp3)] = "file" /\ fs[InSub(StemA, ExtTxt)] = "file")
           ~> (UploadsOf(StemA) # {})
    /\ [](\A i \in Indices :
              trace[i].outcome = "no_pair" =>
                  trace[i].report = "" /\ trace[i].req = None)
    /\ [](pc # "panicked")

\* the .txt came first and its notification found no pair; the notification
\* of the .mp3 then led to the upload
C14_Witness ==
    \E i, j \in Indices :
        /\ i < j
        /\ trace[i].path = InSub(StemA, ExtTxt)
        /\ trace[i].outcome = "no_pair"
        /\ trace[j].path = InSub(StemA, ExtMp3)
        /\ j \in UploadsOf(StemA)

(***************************************************************************)
(* C15.  Every pair handed to upload_file is, at the time it is resolved,  *)
(* the <stem>.mp3 and <stem>.txt next to the triggering path, and both are *)
(* regular files.  extract_file_info tests exists(), which a directory     *)
(* passes, so this fails.                                                  *)
(***************************************************************************)
C15_PairOfRegularFiles ==
    [][(pc = "resolve" /\ pc' = "upload") =>
          /\ pair' = Some(<<Mp3Of(Head(cur)), TxtOf(Head(cur))>>)
          /\ Kind(Mp3Of(Head(cur))) = "file"
          /\ Kind(TxtOf(Head(cur))) = "file"]_vars

(***************************************************************************)
(* C16.  Nothing is carried from one notification to the next: while the   *)
(* tree is left alone, two notifications for the same path are processed   *)
(* alike whatever was processed before each of them: the same request or   *)
(* none, and the same outcome up to the answer of the server.              *)
(***************************************************************************)
C16_NoCarriedState ==
    fsops = 0 =>
        \A i, j \in Indices :
            trace[i].path = trace[j].path =>
                /\ trace[i].req = trace[j].req
                /\ Sent(i) \/ trace[i].outcome = trace[j].outcome

\* the same path was uploaded twice, with another upload in between
C16_Witness ==
    /\ fsops = 0
    /\ \E i, j, k \in Indices :
          /\ i < k /\ k < j
          /\ trace[i].path = trace[j].path
          /\ trace[k].path # trace[i].path
          /\ Sent(i) /\ Sent(j) /\ Sent(k)

(***************************************************************************)
(* C17.  The metadata of a request comes from the name of the .mp3 alone,  *)
(* and the request of a pair is the same whether the .mp3 or the .txt was  *)
(* notified.                                                               *)
(***************************************************************************)
\* what the names of the recordings of the sub-directory say, by the path
\* that was notified
MetaOfStem ==
    [p \in {InSub(StemA, ExtMp3), InSub(StemA, ExtTxt)} |->
        [talkgroup_id |-> <<"4", "1">>, timestamp |-> Timestamp1,
         radio_id |-> <<"9", "8">>, recording |-> StemA \o ExtMp3]]
    @@ [p \in {InSub(StemB, ExtMp3), InSub(StemB, ExtTxt)} |->
        [talkgroup_id |-> <<"7">>, timestamp |-> Timestamp1,
         radio_id |-> DefaultRadioId, recording |-> StemB \o ExtMp3]]

C17_RequestOfPairWhicheverTriggers ==
    /\ \A i \in Indices :
          Sent(i) =>
              LET e == trace[i]
              IN  /\ e.path \in DOMAIN MetaOfStem
                  /\ LET m == MetaOfStem[e.path]
                     IN  /\ e.req[1].talkgroupId = m.talkgroup_id
                         /\ e.req[1].timestamp = m.timestamp
                         /\ e.req[1].radioId = m.radio_id
                         /\ e.req[1].mp3.file_name = m.recording
    /\ \A i, j \in Indices :
          (i < j /\ Sent(i) /\ Sent(j)
             /\ MetaOfStem[trace[i].path].recording = MetaOfStem[trace[j].path].recording)
              => trace[i].req = trace[j].req

\* pair A was uploaded once for its .mp3 and once for its .txt
C17_Witness ==
    \E i, j \in Indices :
        /\ trace[i].path = InSub(StemA, ExtMp3)
        /\ trace[j].path = InSub(StemA, ExtTxt)
        /\ Sent(i) /\ Sent(j)

(***************************************************************************)
(* C18.  The channel is first-in-first-out and hands over every result of  *)
(* the watcher exactly once: what the watcher delivered is, in order, what *)
(* the loop finished, then what it is working on, then what waits in the   *)
(* channel.  The channel is unbounded: the watcher's send is possible      *)
(* whatever the loop is doing and however much waits.                      *)
(***************************************************************************)
RECURSIVE ChanPaths(_)
\* the paths of the entries that wait in channel `c`, oldest first
ChanPaths(c) ==
    IF c = <<>> THEN <<>> ELSE EventPaths(Head(c)) \o ChanPaths(Tail(c))

C18_ChannelFifoExactlyOnce ==
    /\ delivered = [i \in Indices |-> trace[i].path]
                   \o (IF pc = "panicked" THEN Tail(cur) ELSE cur)
                   \o ChanPaths(chan)
    /\ (pc # "panicked" /\ nsent < MaxEvents) =>
           \A res \in Events : ENABLED WatcherCallback(res)

\* a notification with two paths and then an error of the watcher were sent
\* and all three entries were handled, in that order
C18_Witness ==
    /\ pc = "recv"
    /\ chan = <<>>
    /\ nsent = 2
    /\ Len(trace) = 3
    /\ trace[1].path = InSub(StemA, ExtMp3)
    /\ trace[2].path = InSub(StemB, ExtMp3)
    /\ trace[3].outcome = "watch_error"

(***************************************************************************)
(* C19.  Processing never changes the filesystem: the tree changes only in *)
(* steps of external writers, which leave the loop and the channel where   *)
(* they are; so when the answer to an upload comes and no one else touched *)
(* the pair, both files are still there and the pair resolves again.       *)
(***************************************************************************)
C19_ProcessingLeavesTreeAlone ==
    [][/\ fs' # fs => (fsops' = fsops + 1 /\ UNCHANGED <<loopVars, chan, delivered>>)
       /\ (pc = "await" /\ pc' # "await"
              /\ fs[pair[1][1]] = "file" /\ fs[pair[1][2]] = "file")
              => (fs'[pair[1][1]] = "file" /\ fs'[pair[1][2]] = "file")]_vars

\* pair A was uploaded twice, the second time from the files the first left
C19_Witness ==
    /\ fsops = 0
    /\ Cardinality(UploadsOf(StemA)) = 2
    /\ \A i \in UploadsOf(StemA) : trace[i].outcome = "Ok 200"
    /\ extract_file_info(InSub(StemA, ExtTxt))
           = Some(<<InSub(StemA, ExtMp3), InSub(StemA, ExtTxt)>>)

====
